---- MODULE Spec2Model ----
(***************************************************************************)
(* TrendForge (src/App.py): the crypto snapshot page.  A ticker is         *)
(* resolved to an asset id, price and 30-day history are fetched, RSI and  *)
(* MACD are computed and interpreted, and news headlines matched against   *)
(* the asset are scored by a sentiment model.                              *)
(*                                                                         *)
(* Strings are sequences of one-character strings, so that lower(),        *)
(* split(), strip() and the substring test are computed as Python does.    *)
(* Floating-point quantities are exact rationals (numerator, denominator). *)
(***************************************************************************)
EXTENDS Integers, Sequences, FiniteSets, TLC

VARIABLES
    pc,           \* position of the running script / function
    title,        \* the title of the feed entry being matched
    coin_name,    \* fetch_crypto_news argument
    ticker,       \* fetch_crypto_news argument / ticker_input
    feeds,        \* what feedparser.parse yields per source: entries
    headlines,    \* list returned by fetch_rss_news / fetch_crypto_news
    model_calls,  \* outcome of each sentiment_model call, in call order
    sentiments,   \* list returned by analyze_sentiment
    chart_data,   \* raw [timestamp-ms, price] pairs
    df,           \* frame returned by calculate_indicators
    interp,       \* what interpret_indicators wrote, or the error it raised
    symbol_id,    \* resolve_crypto_id result
    price,        \* get_crypto_price result
    out           \* sections the page has rendered, in order

vars == <<pc, title, coin_name, ticker, feeds, headlines, model_calls,
          sentiments, chart_data, df, interp, symbol_id, price, out>>

None == "None"

(***************************************************************************)
(* Python string operations                                                *)
(***************************************************************************)
UpperCase == <<"A","B","C","D","E","F","G","H","I","J","K","L","M",
               "N","O","P","Q","R","S","T","U","V","W","X","Y","Z">>
LowerCase == <<"a","b","c","d","e","f","g","h","i","j","k","l","m",
               "n","o","p","q","r","s","t","u","v","w","x","y","z">>

\* the characters str.split() and str.strip() treat as whitespace
Whitespace == {" ", "\t", "\n", "\r", "\f"}

LowerChar(c) ==
    IF \E i \in 1..Len(UpperCase) : UpperCase[i] = c
    THEN LowerCase[CHOOSE i \in 1..Len(UpperCase) : UpperCase[i] = c]
    ELSE c

\* str.lower()
lower(s) == [i \in 1..Len(s) |-> LowerChar(s[i])]

RECURSIVE SplitRec(_, _, _, _)
SplitRec(s, i, cur, acc) ==
    IF i > Len(s)
    THEN IF cur = <<>> THEN acc ELSE Append(acc, cur)
    ELSE IF s[i] \in Whitespace
         THEN SplitRec(s, i + 1, <<>>, IF cur = <<>> THEN acc ELSE Append(acc, cur))
         ELSE SplitRec(s, i + 1, Append(cur, s[i]), acc)

\* str.split() with no argument: the maximal runs of non-whitespace
split(s) == SplitRec(s, 1, <<>>, <<>>)

RECURSIVE LStrip(_)
LStrip(s) == IF s # <<>> /\ Head(s) \in Whitespace THEN LStrip(Tail(s)) ELSE s

RECURSIVE RStrip(_)
RStrip(s) ==
    IF s # <<>> /\ s[Len(s)] \in Whitespace
    THEN RStrip(SubSeq(s, 1, Len(s) - 1))
    ELSE s

\* str.strip()
strip(s) == RStrip(LStrip(s))

\* needle in hay, for strings
Contains(hay, needle) ==
    \E i \in 0..(Len(hay) - Len(needle)) : SubSeq(hay, i + 1, i + Len(needle)) = needle

\* x in list
InList(x, list) == \E i \in 1..Len(list) : list[i] = x

\* the slice bound of title_lower.split()[:6]
TokenWindow == 6

\* list[:n]
Slice(list, n) == SubSeq(list, 1, IF Len(list) < n THEN Len(list) ELSE n)

RECURSIVE Join(_)
\* the string made of the pieces, in order
Join(pieces) == IF pieces = <<>> THEN <<>> ELSE Head(pieces) \o Join(Tail(pieces))

(***************************************************************************)
(* Headline matcher: fetch_rss_news and fetch_crypto_news                  *)
(***************************************************************************)
\* any(term in title_lower.split()[:6] ...), for one term
FirstTokensCheck(title_lower, term) ==
    InList(term, Slice(split(title_lower), TokenWindow))

\* the term searched as a plain substring, word boundaries forgotten
StandaloneWordCheck_Substring(title_lower, term) == Contains(title_lower, term)

\* the title searched without the padding spaces around it
StandaloneWordCheck_Unpadded(title_lower, term) ==
    Contains(title_lower, <<" ">> \o term \o <<" ">>)

\* any(f" {term} " in f" {title_lower} " ...), for one term
StandaloneWordCheck(title_lower, term) ==
    Contains(<<" ">> \o title_lower \o <<" ">>, <<" ">> \o term \o <<" ">>)

\* the condition of the if statement, over the list query_terms
TitleMatches(title_lower, query_terms) ==
    \/ \E k \in 1..Len(query_terms) : FirstTokensCheck(title_lower, query_terms[k])
    \/ \E k \in 1..Len(query_terms) : StandaloneWordCheck(title_lower, query_terms[k])

\* query_terms = [coin_name.lower(), ticker.lower()]
QueryTerms(name, tick) == <<lower(name), lower(tick)>>

\* entries is feed.entries; the result is the list headlines
fetch_rss_news(entries, name, tick, source_name) ==
    LET query_terms == QueryTerms(name, tick)
        kept == SelectSeq(entries, LAMBDA e : TitleMatches(lower(e.title), query_terms))
    IN  [i \in 1..Len(kept) |-> <<strip(kept[i].title), kept[i].link, source_name>>]

CointelegraphUrl ==
    <<"h","t","t","p","s",":","/","/","c","o","i","n","t","e","l","e","g",
      "r","a","p","h",".","c","o","m","/","r","s","s","/","t","a","g","/">>
BitcoinComUrl ==
    <<"h","t","t","p","s",":","/","/","n","e","w","s",".","b","i","t","c",
      "o","i","n",".","c","o","m","/","f","e","e","d","/","?","s","=">>
CoindeskUrl ==
    <<"h","t","t","p","s",":","/","/","w","w","w",".","c","o","i","n","d",
      "e","s","k",".","c","o","m","/","s","e","a","r","c","h","?","q","u",
      "e","r","y","=">>

\* the list sources: name and URL up to the interpolated coin name
Sources ==
    << [name |-> "Cointelegraph", url |-> CointelegraphUrl],
       [name |-> "Bitcoin.com",   url |-> BitcoinComUrl],
       [name |-> "Coindesk",      url |-> CoindeskUrl] >>

SourceNames == {Sources[i].name : i \in 1..Len(Sources)}

\* f"...{coin_name.lower()}"
SourceUrl(i, name) == Sources[i].url \o lower(name)

\* if "rss" in url or "feed" in url
IsFeedUrl(url) == Contains(url, <<"r","s","s">>) \/ Contains(url, <<"f","e","e","d">>)

\* the slice bound of headlines[:5]
NewsCap == 5

RECURSIVE CollectFrom(_, _, _, _)
\* the for loop over sources, from source i on
CollectFrom(i, pool, name, tick) ==
    IF i > Len(Sources) THEN <<>>
    ELSE (IF IsFeedUrl(SourceUrl(i, name))
          THEN fetch_rss_news(pool[Sources[i].name], name, tick, Sources[i].name)
          ELSE <<>>)
         \o CollectFrom(i + 1, pool, name, tick)

\* the cap forgotten: every match is returned
fetch_crypto_news_NoCap(pool, name, tick) == CollectFrom(1, pool, name, tick)

\* pool[s] is what feedparser.parse yields for source s
fetch_crypto_news(pool, name, tick) == Slice(CollectFrom(1, pool, name, tick), NewsCap)

(***************************************************************************)
(* Values the unused parts of the state hold                               *)
(***************************************************************************)
NoFeeds == [s \in SourceNames |-> <<>>]

MatchIdle ==
    /\ title = <<>>

NewsIdle ==
    /\ feeds = NoFeeds

SentIdle ==
    /\ model_calls = <<>>
    /\ sentiments = <<>>

IndIdle ==
    /\ chart_data = <<>>
    /\ df = None
    /\ interp = None

FlowIdle ==
    /\ symbol_id = <<>>
    /\ price = None
    /\ out = <<>>

(***************************************************************************)
(* SpecMatch: one feed entry through fetch_rss_news                        *)
(***************************************************************************)
CanadaAdaTitle ==
    <<"C","a","n","a","d","a"," ","e","y","e","s"," ","n","e","w"," ","A",
      "D","A"," ","r","e","g","u","l","a","t","i","o","n">>
CanadaTitle ==
    <<"C","a","n","a","d","a"," ","e","y","e","s"," ","n","e","w"," ","r",
      "e","g","u","l","a","t","i","o","n">>
BitcoinSurgesTitle ==
    <<"B","i","t","c","o","i","n"," ","s","u","r","g","e","s"," ","p","a",
      "s","t"," ","$","7","0","k">>
XyzTitle ==
    <<"X","Y","Z"," ","p","a","r","t","n","e","r","s"," ","w","i","t","h",
      " ","B","i","t","c","o","i","n"," ","I","n","c">>

Cardano == <<"C","a","r","d","a","n","o">>
Bitcoin == <<"B","i","t","c","o","i","n">>

\* (coin name, ticker) pairs asked about
AssetQueries == { <<Cardano, <<"A","D","A">> >>, <<Bitcoin, <<"b","t","c">> >> }

SeedTitles == {CanadaAdaTitle, CanadaTitle, BitcoinSurgesTitle, XyzTitle}

\* what a title is extended with
Pieces == { <<"A","D","A">>, <<" ">>, <<"\t">>, <<"x">> }

MaxPieces == 5

InitMatch ==
    /\ pc = "title"
    /\ title \in {<<>>} \cup {<<s>> : s \in SeedTitles}
    /\ \E q \in AssetQueries : coin_name = q[1] /\ ticker = q[2]
    /\ headlines = <<>>
    /\ NewsIdle /\ SentIdle /\ IndIdle /\ FlowIdle

AppendPiece(p) ==
    /\ pc = "title"
    /\ Len(title) < MaxPieces
    /\ title' = Append(title, p)
    /\ UNCHANGED <<pc, coin_name, ticker, feeds, headlines, model_calls,
                   sentiments, chart_data, df, interp, symbol_id, price, out>>

MatchEntry ==
    /\ pc = "title"
    /\ headlines' = fetch_rss_news(<<[title |-> Join(title), link |-> 1]>>,
                                   coin_name, ticker, "Cointelegraph")
    /\ pc' = "matched"
    /\ UNCHANGED <<title, coin_name, ticker, feeds, model_calls,
                   sentiments, chart_data, df, interp, symbol_id, price, out>>

NextMatch ==
    \/ \E p \in Pieces : AppendPiece(p)
    \/ MatchEntry

SpecMatch == InitMatch /\ [][NextMatch]_vars

(***************************************************************************)
(* Claims about the matcher                                                *)
(***************************************************************************)
Ada == <<"a","d","a">>

\* the entry matched is `t`, asked for ticker "ada", the coin name not in it
AdaCase(t) ==
    /\ pc = "matched"
    /\ Join(title) = t
    /\ lower(ticker) = Ada
    /\ ~Contains(lower(t), lower(coin_name))

\* C4 as stated: "Canada eyes new ADA regulation" is not matched for the
\* ticker "ada" (the coin name not occurring in the title).
C4_CanadaAdaNotMatched == AdaCase(CanadaAdaTitle) => headlines = <<>>

\* C4 amended: "Canada eyes new ADA regulation" is matched for the ticker
\* "ada", its fourth token being the standalone word ADA; "ada" inside
\* "Canada" alone does not match: "Canada eyes new regulation" is not matched.
C4_StandaloneAdaMatched ==
    /\ AdaCase(CanadaAdaTitle) => headlines = << <<CanadaAdaTitle, 1, "Cointelegraph">> >>
    /\ AdaCase(CanadaTitle) => headlines = <<>>

C4_Witness == AdaCase(CanadaAdaTitle) /\ Len(headlines) = 1

\* every whitespace character of s is a plain space
OnlySpaces(s) == \A i \in 1..Len(s) : s[i] \in Whitespace => s[i] = " "

\* C10 as stated: for every title and query term, the term being one of the
\* first 6 tokens implies " term " occurs in the space-padded title.
C10_FirstTokensImplyStandalone ==
    \A k \in 1..2 :
        FirstTokensCheck(lower(Join(title)), QueryTerms(coin_name, ticker)[k])
        => StandaloneWordCheck(lower(Join(title)), QueryTerms(coin_name, ticker)[k])

\* C10 amended: for every title whose whitespace characters are all plain
\* spaces, the term being one of the first 6 tokens implies " term " occurs
\* in the space-padded title, and the entry is kept exactly when the
\* standalone-word check holds for some term.
C10_SupersetWhenOnlySpaces ==
    OnlySpaces(Join(title)) =>
        /\ \A k \in 1..2 :
              FirstTokensCheck(lower(Join(title)), QueryTerms(coin_name, ticker)[k])
              => StandaloneWordCheck(lower(Join(title)), QueryTerms(coin_name, ticker)[k])
        /\ pc = "matched" =>
              (headlines # <<>> <=>
                 \E k \in 1..2 :
                    StandaloneWordCheck(lower(Join(title)), QueryTerms(coin_name, ticker)[k]))

C10_Witness ==
    /\ pc = "matched"
    /\ Len(title) > 1
    /\ OnlySpaces(Join(title))
    /\ \E k \in 1..2 :
          FirstTokensCheck(lower(Join(title)), QueryTerms(coin_name, ticker)[k])
    /\ headlines # <<>>

(***************************************************************************)
(* SpecNews: a pool of feed entries through fetch_crypto_news              *)
(***************************************************************************)
RallyTitle ==
    <<"F","e","e","d"," ","B","T","C"," ","u","p">>
NoiseTitle ==
    <<"D","i","p"," ","t","o","d","a","y">>

NewsTitles == {RallyTitle, NoiseTitle}

FeedCoin == <<"F","e","e","d">>

\* (coin name, ticker) pairs the pool is fetched for
NewsQueries == { <<Bitcoin, <<"b","t","c">> >>, <<FeedCoin, <<"F","E","G">> >> }

MaxFeedLen == 4

\* entries of the pool that are beside the subject
MaxNoise == 1

NoiseCount(pool) ==
    Cardinality({e \in SourceNames \X (1..MaxFeedLen) :
                    /\ e[2] <= Len(pool[e[1]])
                    /\ pool[e[1]][e[2]].title = NoiseTitle})

InitNews ==
    /\ pc = "pool"
    /\ feeds = NoFeeds
    /\ \E q \in NewsQueries : coin_name = q[1] /\ ticker = q[2]
    /\ headlines = <<>>
    /\ MatchIdle /\ SentIdle /\ IndIdle /\ FlowIdle

\* one more entry in the feed of source s; its link is its place in the feed
AddEntry(s, t) ==
    /\ pc = "pool"
    /\ Len(feeds[s]) < MaxFeedLen
    /\ t = NoiseTitle => NoiseCount(feeds) < MaxNoise
    /\ feeds' = [feeds EXCEPT ![s] = Append(@, [title |-> t, link |-> Len(@) + 1])]
    /\ UNCHANGED <<pc, title, coin_name, ticker, headlines, model_calls,
                   sentiments, chart_data, df, interp, symbol_id, price, out>>

FetchNews ==
    /\ pc = "pool"
    /\ headlines' = fetch_crypto_news(feeds, coin_name, ticker)
    /\ pc' = "fetched"
    /\ UNCHANGED <<title, coin_name, ticker, feeds, model_calls,
                   sentiments, chart_data, df, interp, symbol_id, price, out>>

NextNews ==
    \/ \E s \in SourceNames, t \in NewsTitles : AddEntry(s, t)
    \/ FetchNews

SpecNews == InitNews /\ [][NextNews]_vars

(***************************************************************************)
(* Claims about the pool                                                   *)
(***************************************************************************)
\* the entries of source i relevant to the asset, as headlines, in feed order
MatchedOf(i) ==
    LET es == feeds[Sources[i].name]
        rel == SelectSeq(es, LAMBDA e :
                  TitleMatches(lower(e.title), QueryTerms(coin_name, ticker)))
    IN  [j \in 1..Len(rel) |-> <<strip(rel[j].title), rel[j].link, Sources[i].name>>]

\* source i is one whose feed is read: Cointelegraph and Bitcoin.com always,
\* Coindesk only for a coin name containing "rss" or "feed"
IsRead(i) ==
    \/ i \in {1, 2}
    \/ Contains(lower(coin_name), <<"r","s","s">>)
    \/ Contains(lower(coin_name), <<"f","e","e","d">>)

FirstOf(list, n) == SubSeq(list, 1, IF Len(list) < n THEN Len(list) ELSE n)

ReadMatched ==
    (IF IsRead(1) THEN MatchedOf(1) ELSE <<>>)
    \o (IF IsRead(2) THEN MatchedOf(2) ELSE <<>>)
    \o (IF IsRead(3) THEN MatchedOf(3) ELSE <<>>)

\* C5: fetch_crypto_news returns at most 5 headlines, and they are the first
\* min(5, n) of the per-source matches concatenated in the fixed source
\* order, in feed order within a source, n being the number of matches; with
\* 10 matches across the sources it returns exactly 5.  The sources are the
\* feeds the function reads: a listed URL with neither "rss" nor "feed" in
\* it (the Coindesk search page) is no feed and yields nothing.
C5_FirstFiveInSourceOrder ==
    pc = "fetched" =>
        /\ Len(headlines) <= 5
        /\ headlines = FirstOf(ReadMatched, 5)
        /\ Len(ReadMatched) >= 10 => Len(headlines) = 5

\* ten matches or more in a pool that also holds an entry beside the subject,
\* the five returned coming from two sources
C5_Witness ==
    /\ pc = "fetched"
    /\ Len(ReadMatched) >= 10
    /\ Len(headlines) = 5
    /\ headlines[1][3] # headlines[5][3]
    /\ \E i \in 1..Len(Sources) : \E j \in 1..Len(feeds[Sources[i].name]) :
          feeds[Sources[i].name][j].title = NoiseTitle

(***************************************************************************)
(* Sentiment scorer: analyze_sentiment                                     *)
(***************************************************************************)
\* Scores are in hundredths: 0.99 is 99, the fallback 0.0 is 0.
\* What one call sentiment_model(title) does: it raises, it returns an empty
\* list (so that [0] raises IndexError), or it returns [{label, score}].
ModelOutcomes ==
    { [kind |-> "raises"], [kind |-> "empty"],
      [kind |-> "ok", label |-> "POSITIVE", score |-> 99],
      [kind |-> "ok", label |-> "NEGATIVE", score |-> 51] }

\* the body of the for loop for one headline: the try, and its except
ScoreOne(h, outcome) ==
    IF outcome.kind = "ok"
    THEN <<h[1], outcome.label, outcome.score, h[2], h[3]>>
    ELSE <<h[1], "UNKNOWN", 0, h[2], h[3]>>

RECURSIVE ScoreFrom(_, _, _)
ScoreFrom(i, hs, outcomes) ==
    IF i > Len(hs) THEN <<>>
    ELSE <<ScoreOne(hs[i], outcomes[i])>> \o ScoreFrom(i + 1, hs, outcomes)

RECURSIVE ScoreFrom_DropFailed(_, _, _)
\* a failed call leaves no result
ScoreFrom_DropFailed(i, hs, outcomes) ==
    IF i > Len(hs) THEN <<>>
    ELSE (IF outcomes[i].kind = "ok" THEN <<ScoreOne(hs[i], outcomes[i])>> ELSE <<>>)
         \o ScoreFrom_DropFailed(i + 1, hs, outcomes)

analyze_sentiment_DropFailed(hs, outcomes) == ScoreFrom_DropFailed(1, hs, outcomes)

\* outcomes[i] is what the i-th model call does
analyze_sentiment(hs, outcomes) == ScoreFrom(1, hs, outcomes)

(***************************************************************************)
(* SpecSent: a list of headlines through analyze_sentiment                 *)
(***************************************************************************)
MaxHeadlines == 3

InitSent ==
    /\ pc = "headlines"
    /\ headlines = <<>>
    /\ model_calls = <<>>
    /\ sentiments = <<>>
    /\ coin_name = <<>> /\ ticker = <<>>
    /\ MatchIdle /\ NewsIdle /\ IndIdle /\ FlowIdle

\* one more headline (title, link, source) in the input list
AddHeadline(t, s) ==
    /\ pc = "headlines"
    /\ Len(headlines) < MaxHeadlines
    /\ headlines' = Append(headlines, <<t, Len(headlines) + 1, s>>)
    /\ UNCHANGED <<pc, title, coin_name, ticker, feeds, model_calls,
                   sentiments, chart_data, df, interp, symbol_id, price, out>>

Analyze ==
    /\ pc = "headlines"
    /\ \E outcomes \in [1..Len(headlines) -> ModelOutcomes] :
          /\ model_calls' = outcomes
          /\ sentiments' = analyze_sentiment(headlines, outcomes)
    /\ pc' = "scored"
    /\ UNCHANGED <<title, coin_name, ticker, feeds, headlines,
                   chart_data, df, interp, symbol_id, price, out>>

NextSent ==
    \/ \E t \in NewsTitles, s \in {"Cointelegraph", "Bitcoin.com"} : AddHeadline(t, s)
    \/ Analyze

SpecSent == InitSent /\ [][NextSent]_vars

\* C1: analyze_sentiment returns one result per headline, in input order; a
\* headline whose model call failed has label UNKNOWN and score 0.0, every
\* other one the label and score the model returned for it.
C1_OneResultPerHeadline ==
    pc = "scored" =>
        /\ Len(sentiments) = Len(headlines)
        /\ \A i \in 1..Len(headlines) :
              /\ Len(sentiments) >= i
              /\ sentiments[i][1] = headlines[i][1]
              /\ sentiments[i][4] = headlines[i][2]
              /\ sentiments[i][5] = headlines[i][3]
              /\ model_calls[i].kind # "ok" =>
                    sentiments[i][2] = "UNKNOWN" /\ sentiments[i][3] = 0
              /\ model_calls[i].kind = "ok" =>
                    /\ sentiments[i][2] = model_calls[i].label
                    /\ sentiments[i][3] = model_calls[i].score

\* three headlines, the model failing on the second only
C1_Witness ==
    /\ pc = "scored"
    /\ Len(headlines) = 3
    /\ model_calls[1].kind = "ok"
    /\ model_calls[2].kind = "raises"
    /\ model_calls[3].kind = "ok"
    /\ sentiments[2][2] = "UNKNOWN"
    /\ sentiments[3][2] = "NEGATIVE"

(***************************************************************************)
(* Indicator engine: calculate_indicators                                  *)
(*                                                                         *)
(* A float is a pair <<n, d>>: the exact rational n/d when d > 0, NaN when  *)
(* it is <<0, 0>>, an infinity (of either sign) when it is <<1, 0>>.  The  *)
(* exponential averages behind macd and signal are not evaluated: a cell   *)
(* of these columns is "NaN" or "Num", a number whose value is not         *)
(* tracked.                                                                *)
(***************************************************************************)
NaN == <<0, 0>>
Inf == <<1, 0>>
SymNaN == "NaN"
Num == "Num"

\* rolling(window=14)
RsiWindow == 14

\* pd.to_datetime(unit="ms"): nanoseconds in one millisecond
NsPerMs == 1000000

\* pd.to_datetime(df["timestamp"], unit="ms"), as nanoseconds since the epoch
to_datetime(ms) == ms * NsPerMs

\* df["price"].diff(): NaN in the first row
Diff(ps) == [i \in 1..Len(ps) |-> IF i = 1 THEN NaN ELSE <<ps[i] - ps[i - 1], 1>>]

\* delta.where(delta > 0, 0): a NaN compares false and becomes 0
GainRaw(delta) == [i \in 1..Len(delta) |->
                      IF delta[i] # NaN /\ delta[i][1] > 0 THEN delta[i][1] ELSE 0]

\* delta.where(delta < 0, 0)
LossRaw(delta) == [i \in 1..Len(delta) |->
                      IF delta[i] # NaN /\ delta[i][1] < 0 THEN delta[i][1] ELSE 0]

RECURSIVE SumRange(_, _, _)
SumRange(xs, lo, hi) == IF lo > hi THEN 0 ELSE xs[lo] + SumRange(xs, lo + 1, hi)

\* .rolling(window=14).mean(): NaN until 14 rows are in the window
RollingMean(xs) == [i \in 1..Len(xs) |->
                       IF i < RsiWindow THEN NaN
                       ELSE <<SumRange(xs, i - RsiWindow + 1, i), RsiWindow>>]

\* unary minus on a column
Negate(xs) == [i \in 1..Len(xs) |-> IF xs[i] = NaN THEN NaN ELSE <<-xs[i][1], xs[i][2]>>]

\* float division of two finite cells, neither negative: x/0 is an infinity,
\* 0/0 is NaN
FloatDiv(a, b) ==
    IF a = NaN \/ b = NaN THEN NaN
    ELSE IF b[1] = 0 THEN (IF a[1] = 0 THEN NaN ELSE Inf)
    ELSE <<a[1] * b[2], a[2] * b[1]>>

\* 100 - (100 / (1 + rs)) for one cell
RsiOfRs(rs) ==
    IF rs = NaN THEN NaN
    ELSE IF rs = Inf THEN <<100, 1>>
    ELSE <<100 * (rs[1] + rs[2]) - 100 * rs[2], rs[1] + rs[2]>>

\* the rsi column
RsiColumn(ps) ==
    LET delta == Diff(ps)
        gain  == RollingMean(GainRaw(delta))
        loss  == Negate(RollingMean(LossRaw(delta)))
    IN  [i \in 1..Len(ps) |-> RsiOfRs(FloatDiv(gain[i], loss[i]))]

\* .ewm(span=..., adjust=False).mean(): a value in every row from the first
\* non-NaN input on; nan is the NaN of the input column
EwmMean(xs, nan) == [i \in 1..Len(xs) |->
                        IF \E j \in 1..i : xs[j] # nan THEN Num ELSE SymNaN]

\* exp1 - exp2
ColumnDiff(xs, ys) == [i \in 1..Len(xs) |->
                          IF xs[i] = SymNaN \/ ys[i] = SymNaN THEN SymNaN ELSE Num]

\* prices is the list of [timestamp, price] rows; the frame keeps their order
calculate_indicators(prices) ==
    LET ps   == [i \in 1..Len(prices) |-> prices[i][2]]
        cells == [i \in 1..Len(prices) |-> <<ps[i], 1>>]
        macd == ColumnDiff(EwmMean(cells, NaN), EwmMean(cells, NaN))
    IN  [ index  |-> [i \in 1..Len(prices) |-> to_datetime(prices[i][1])],
          price  |-> ps,
          rsi    |-> RsiColumn(ps),
          macd   |-> macd,
          signal |-> EwmMean(macd, SymNaN) ]

(***************************************************************************)
(* Indicator interpreter: interpret_indicators                             *)
(***************************************************************************)
\* column.dropna(); nan is the NaN of the column
dropna(xs, nan) == SelectSeq(xs, LAMBDA x : x # nan)

\* a > b and a < b for a finite float and an integer
Greater(a, b) == a[1] > b * a[2]
Less(a, b) == a[1] < b * a[2]

\* the RSI line written
RsiText(latest_rsi) ==
    IF Greater(latest_rsi, 70) THEN "overbought"
    ELSE IF Less(latest_rsi, 30) THEN "oversold"
    ELSE "neutral"

\* the MACD lines that can be written: the comparison of latest_macd with
\* latest_signal is whatever the averages give
MacdTexts(frame) == {"bullish", "bearish", "sideways"}

\* what the function does: the lines it writes, or the exception it raises
\* when .iloc[-1] is taken of an empty column
interpret_indicators(frame) ==
    IF \/ dropna(frame.rsi, NaN) = <<>>
       \/ dropna(frame.macd, SymNaN) = <<>>
       \/ dropna(frame.signal, SymNaN) = <<>>
    THEN { [raised |-> "IndexError", rsi |-> None, macd |-> None] }
    ELSE LET r == dropna(frame.rsi, NaN) IN
         { [raised |-> None, rsi |-> RsiText(r[Len(r)]), macd |-> m] : m \in MacdTexts(frame) }

(***************************************************************************)
(* SpecInd: a chart payload through calculate_indicators and               *)
(* interpret_indicators.  The payload has its samples in time order.       *)
(***************************************************************************)
PriceLevels == {100, 101}

MaxPoints == 15

InitInd ==
    /\ pc = "payload"
    /\ chart_data = <<>>
    /\ df = None
    /\ interp = None
    /\ coin_name = <<>> /\ ticker = <<>> /\ headlines = <<>>
    /\ MatchIdle /\ NewsIdle /\ SentIdle /\ FlowIdle

\* the next sample of the payload
AppendPoint(p) ==
    /\ pc = "payload"
    /\ Len(chart_data) < MaxPoints
    /\ chart_data' = Append(chart_data, <<Len(chart_data) + 1, p>>)
    /\ UNCHANGED <<pc, title, coin_name, ticker, feeds, headlines, model_calls,
                   sentiments, df, interp, symbol_id, price, out>>

Calculate ==
    /\ pc = "payload"
    /\ df' = calculate_indicators(chart_data)
    /\ pc' = "calculated"
    /\ UNCHANGED <<title, coin_name, ticker, feeds, headlines, model_calls,
                   sentiments, chart_data, interp, symbol_id, price, out>>

Interpret ==
    /\ pc = "calculated"
    /\ interp' \in interpret_indicators(df)
    /\ pc' = "interpreted"
    /\ UNCHANGED <<title, coin_name, ticker, feeds, headlines, model_calls,
                   sentiments, chart_data, df, symbol_id, price, out>>

NextInd ==
    \/ \E p \in PriceLevels : AppendPoint(p)
    \/ Calculate
    \/ Interpret

SpecInd == InitInd /\ [][NextInd]_vars

(***************************************************************************)
(* Claims about the indicators                                             *)
(***************************************************************************)
Calculated == pc \in {"calculated", "interpreted"}

\* C2 as stated: a non-empty series of fewer than 14 points, through
\* calculate_indicators and interpret_indicators, gives a "no data" signal
\* for the RSI and raises no error.
C2_ShortSeriesNoData ==
    (pc = "interpreted" /\ Len(chart_data) \in 1..(RsiWindow - 1)) =>
        /\ interp.raised = None
        /\ interp.rsi = "no data"

\* the price change into row j (0 in the first row), its rise and its fall
Change(j) == IF j = 1 THEN 0 ELSE chart_data[j][2] - chart_data[j - 1][2]
Rise(j) == IF Change(j) > 0 THEN Change(j) ELSE 0
Fall(j) == IF Change(j) < 0 THEN -Change(j) ELSE 0

RECURSIVE WindowRise(_, _)
WindowRise(lo, hi) == IF lo > hi THEN 0 ELSE Rise(lo) + WindowRise(lo + 1, hi)

RECURSIVE WindowFall(_, _)
WindowFall(lo, hi) == IF lo > hi THEN 0 ELSE Fall(lo) + WindowFall(lo + 1, hi)

\* C8 as stated: at every row with a full 14-row window the RSI is a number
\* in [0, 100], it is 100 exactly when the mean loss of the window is 0 and
\* its mean gain is positive, and a zero mean loss never gives NaN.
C8_RsiInRangeNeverNaN ==
    Calculated =>
        \A i \in RsiWindow..Len(chart_data) :
            LET g == WindowRise(i - RsiWindow + 1, i)
                l == WindowFall(i - RsiWindow + 1, i)
                r == df.rsi[i]
            IN  /\ r # NaN
                /\ r[2] > 0
                /\ 0 <= r[1] /\ r[1] <= 100 * r[2]
                /\ (r[1] = 100 * r[2]) <=> (l = 0 /\ g > 0)

\* C9 as stated: for a non-empty series macd and signal are defined in every
\* row; rsi is absent in rows 0..12 and defined from row 13 on.
C9_DefinedRows ==
    Calculated =>
        \A i \in 1..Len(chart_data) :
            /\ df.macd[i] # SymNaN
            /\ df.signal[i] # SymNaN
            /\ i < RsiWindow => df.rsi[i] = NaN
            /\ i >= RsiWindow => df.rsi[i] # NaN

(***************************************************************************)
(* SpecSeries: raw rows, in any order and with repeated timestamps,        *)
(* through calculate_indicators                                            *)
(***************************************************************************)
MaxRows == 3

MaxStamp == 3

InitSeries == InitInd

\* one more raw row [timestamp-ms, price]
AppendRow(ts, p) ==
    /\ pc = "payload"
    /\ Len(chart_data) < MaxRows
    /\ chart_data' = Append(chart_data, <<ts, p>>)
    /\ UNCHANGED <<pc, title, coin_name, ticker, feeds, headlines, model_calls,
                   sentiments, df, interp, symbol_id, price, out>>

NextSeries ==
    \/ \E ts \in 1..MaxStamp, p \in PriceLevels : AppendRow(ts, p)
    \/ Calculate

SpecSeries == InitSeries /\ [][NextSeries]_vars

\* C3 as stated: the time-indexed series is strictly ascending by timestamp,
\* so has each timestamp once, and the price kept for a repeated timestamp
\* is the last one of the input.
C3_SortedLastWriteWins ==
    pc = "calculated" =>
        /\ \A i \in 1..(Len(df.index) - 1) : df.index[i] < df.index[i + 1]
        /\ \A k \in 1..Len(chart_data) :
              (\A k2 \in (k + 1)..Len(chart_data) : chart_data[k2][1] # chart_data[k][1])
              => \E i \in 1..Len(df.index) :
                    /\ df.index[i] = to_datetime(chart_data[k][1])
                    /\ df.price[i] = chart_data[k][2]

(***************************************************************************)
(* The page: resolve the ticker, then price, chart and news                *)
(***************************************************************************)
\* PRIORITY_IDS, as (key, value) pairs
PRIORITY_IDS ==
    {
       <<<<"b","t","c">>, <<"b","i","t","c","o","i","n">>>>,
       <<<<"e","t","h">>, <<"e","t","h","e","r","e","u","m">>>>,
       <<<<"x","r","p">>, <<"r","i","p","p","l","e">>>>,
       <<<<"a","d","a">>, <<"c","a","r","d","a","n","o">>>>,
       <<<<"s","o","l">>, <<"s","o","l","a","n","a">>>>,
       <<<<"b","n","b">>, <<"b","i","n","a","n","c","e","c","o","i","n">>>>,
       <<<<"d","o","g","e">>, <<"d","o","g","e","c","o","i","n">>>>,
       <<<<"l","t","c">>, <<"l","i","t","e","c","o","i","n">>>>,
       <<<<"d","o","t">>, <<"p","o","l","k","a","d","o","t">>>>,
       <<<<"p","o","l">>, <<"p","o","l","y","g","o","n">>>>,
       <<<<"d","a","s","h">>, <<"d","a","s","h">>>>,
       <<<<"e","t","c">>, <<"e","t","h","e","r","e","u","m","_","c","l","a","s","s","i","c">>>> }

\* symbol_id None: `not symbol_id` is true of None and of the empty string
NoId == <<>>

\* the two loops over the coin list: the first coin with the symbol, else the
\* first with the id or the name, else None
RECURSIVE ScanSymbol(_, _)
ScanSymbol(coins, q) ==
    IF coins = <<>> THEN NoId
    ELSE IF lower(Head(coins).symbol) = q THEN Head(coins).id
    ELSE ScanSymbol(Tail(coins), q)

RECURSIVE ScanIdName(_, _)
ScanIdName(coins, q) ==
    IF coins = <<>> THEN NoId
    ELSE IF lower(Head(coins).id) = q \/ lower(Head(coins).name) = q THEN Head(coins).id
    ELSE ScanIdName(Tail(coins), q)

\* coins is the list the API returns
resolve_crypto_id(user_input, coins) ==
    LET q == lower(strip(user_input)) IN
    IF \E kv \in PRIORITY_IDS : kv[1] = q
    THEN (CHOOSE kv \in PRIORITY_IDS : kv[1] = q)[2]
    ELSE IF \E i \in 1..Len(coins) : lower(coins[i].symbol) = q
    THEN ScanSymbol(coins, q)
    ELSE ScanIdName(coins, q)

\* whether the call reaches the API (and so can raise)
ResolveAsksApi(user_input) ==
    ~ \E kv \in PRIORITY_IDS : kv[1] = lower(strip(user_input))

\* the query of the generic news view: fetch_crypto_news("crypto", "crypto")
GenericQuery_None == <<>>

GenericQuery == <<"c","r","y","p","t","o">>

\* what get_crypto_price can return: None, an empty dict, a quote
PriceNone == [kind |-> "none"]
PriceResults ==
    { PriceNone, [kind |-> "empty"], [kind |-> "quote", usd |-> 70000, cad |-> 95000] }

\* if price:
Truthy(p) == p.kind = "quote"

(***************************************************************************)
(* Spec: one run of the script                                             *)
(***************************************************************************)
CryptoTitle == <<"C","r","y","p","t","o"," ","d","i","p","s">>

FeedCoinId == <<"f","e","e","d","-","c","o","i","n">>

\* what the user types
TickerInputs == { <<"B","T","C">>, <<" ","f","e","g">>, <<"z","z","z">> }

\* coin lists the API can return
Catalogs ==
    { <<>>,
      << [id |-> FeedCoinId, symbol |-> <<"F","E","G">>, name |-> FeedCoin] >> }

\* names get_coin_metadata can return: the API's, or the id on a failure
MetaNames(id) == {id, Bitcoin, FeedCoin}

FlatSeries(n) == [i \in 1..n |-> <<i, 100>>]
SawSeries(n) == [i \in 1..n |-> <<i, 100 + (i % 2)>>]

\* chart payloads the API can return
ChartPayloads ==
    { <<>>, SawSeries(3), FlatSeries(RsiWindow), SawSeries(RsiWindow),
      SawSeries(RsiWindow + 1) }

Entries(ts) == [i \in 1..Len(ts) |-> [title |-> ts[i], link |-> i]]

\* what the feeds can hold
FlowPools ==
    { NoFeeds,
      [s \in SourceNames |->
         IF s = "Cointelegraph" THEN Entries(<<RallyTitle, NoiseTitle, CryptoTitle>>)
         ELSE IF s = "Bitcoin.com" THEN Entries(<<CryptoTitle>>)
         ELSE Entries(<<RallyTitle>>)] }

Init ==
    /\ pc = "input"
    /\ ticker \in TickerInputs
    /\ symbol_id = NoId
    /\ price = PriceNone
    /\ out = <<>>
    /\ coin_name = <<>>
    /\ headlines = <<>>
    /\ chart_data = <<>> /\ df = None /\ interp = None
    /\ MatchIdle /\ NewsIdle /\ SentIdle

\* symbol_id = resolve_crypto_id(ticker_input), and the branch on it
Resolve ==
    /\ pc = "input"
    /\ \/ /\ ResolveAsksApi(ticker)
          /\ pc' = "crashed"
          /\ UNCHANGED <<symbol_id, out>>
       \/ \E coins \in Catalogs :
             /\ symbol_id' = resolve_crypto_id(ticker, coins)
             /\ IF symbol_id' = NoId
                THEN pc' = "unresolved" /\ out' = Append(out, "Ticker not recognized")
                ELSE pc' = "price" /\ out' = out
    /\ UNCHANGED <<title, coin_name, ticker, feeds, headlines, model_calls,
                   sentiments, chart_data, df, interp, price>>

\* the unresolved branch: generic news, then st.stop()
GenericNews ==
    /\ pc = "unresolved"
    /\ \E pool \in FlowPools :
          /\ feeds' = pool
          /\ headlines' = fetch_crypto_news(pool, GenericQuery, GenericQuery)
    /\ \E outcomes \in [1..Len(headlines') -> ModelOutcomes] :
          /\ model_calls' = outcomes
          /\ sentiments' = analyze_sentiment(headlines', outcomes)
    /\ out' = out \o [i \in 1..Len(sentiments') |-> "news line"]
    /\ pc' = "stopped"
    /\ UNCHANGED <<title, coin_name, ticker, chart_data, df, interp, symbol_id, price>>

\* price = get_crypto_price(symbol_id): a result, or the call raises
FetchPrice ==
    /\ pc = "price"
    /\ \/ pc' = "crashed" /\ UNCHANGED price
       \/ \E r \in PriceResults : price' = r /\ pc' = "chart"
    /\ UNCHANGED <<title, coin_name, ticker, feeds, headlines, model_calls,
                   sentiments, chart_data, df, interp, symbol_id, out>>

\* chart_data = get_crypto_chart(symbol_id): a list, or the call raises
FetchChart ==
    /\ pc = "chart"
    /\ \/ pc' = "crashed" /\ UNCHANGED chart_data
       \/ \E r \in ChartPayloads : chart_data' = r /\ pc' = "render price"
    /\ UNCHANGED <<title, coin_name, ticker, feeds, headlines, model_calls,
                   sentiments, df, interp, symbol_id, price, out>>

\* if price: ... else: st.error("Price data unavailable.")
RenderPrice ==
    /\ pc = "render price"
    /\ out' = Append(out, IF Truthy(price) THEN "price" ELSE "Price data unavailable.")
    /\ pc' = "render chart"
    /\ UNCHANGED <<title, coin_name, ticker, feeds, headlines, model_calls,
                   sentiments, chart_data, df, interp, symbol_id, price>>

\* if chart_data: calculate, plot, interpret; else the warning
RenderChart ==
    /\ pc = "render chart"
    /\ IF chart_data # <<>>
       THEN /\ df' = calculate_indicators(chart_data)
            /\ interp' \in interpret_indicators(df')
            /\ IF interp'.raised # None
               THEN pc' = "crashed" /\ out' = Append(out, "chart")
               ELSE pc' = "news" /\ out' = out \o <<"chart", "summary">>
       ELSE /\ out' = Append(out, "Chart data unavailable.")
            /\ pc' = "news"
            /\ UNCHANGED <<df, interp>>
    /\ UNCHANGED <<title, coin_name, ticker, feeds, headlines, model_calls,
                   sentiments, chart_data, symbol_id, price>>

\* the news section of a resolved asset
News ==
    /\ pc = "news"
    /\ \E name \in MetaNames(symbol_id), pool \in FlowPools :
          /\ coin_name' = name
          /\ feeds' = pool
          /\ headlines' = fetch_crypto_news(pool, name, ticker)
    /\ \E outcomes \in [1..Len(headlines') -> ModelOutcomes] :
          /\ model_calls' = outcomes
          /\ sentiments' = analyze_sentiment(headlines', outcomes)
    /\ out' = IF headlines' # <<>>
              THEN Append(out, "news")
              ELSE Append(out, "No news found for this coin.")
    /\ pc' = "done"
    /\ UNCHANGED <<title, ticker, chart_data, df, interp, symbol_id, price>>

Next ==
    \/ Resolve
    \/ GenericNews
    \/ FetchPrice
    \/ FetchChart
    \/ RenderPrice
    \/ RenderChart
    \/ News

Spec == Init /\ [][Next]_vars

(***************************************************************************)
(* Claims about the page                                                   *)
(***************************************************************************)
InOut(line) == \E i \in 1..Len(out) : out[i] = line

\* C6 as stated: a request with a resolved asset always runs to completion,
\* and whatever the price fetch and the chart fetch do, the page shows a
\* price section or its "unavailable" message, a chart section or its
\* "unavailable" message, and the news section.
C6_IndependentFailureDomains ==
    (symbol_id # NoId /\ pc \in {"done", "crashed"}) =>
        /\ pc = "done"
        /\ InOut("price") \/ InOut("Price data unavailable.")
        /\ InOut("chart") \/ InOut("Chart data unavailable.")
        /\ InOut("news") \/ InOut("No news found for this coin.")

CryptoWord == <<"c","r","y","p","t","o">>

\* the entries of the feed of source s that satisfy keep, as headlines
Shown(s, keep(_)) ==
    LET es == SelectSeq(feeds[s], keep)
    IN  [j \in 1..Len(es) |-> <<strip(es[j].title), es[j].link, s>>]

NoPriceNoChart ==
    /\ symbol_id = NoId
    /\ price = PriceNone
    /\ chart_data = <<>>
    /\ ~InOut("price") /\ ~InOut("Price data unavailable.")
    /\ ~InOut("chart") /\ ~InOut("Chart data unavailable.")

====
